---- MODULE Spec2Model ----
(***************************************************************************)
(* Model of cpp/src/c_api/extract_paths.cpp: the C entry point             *)
(* cugraph_extract_paths, the functor it dispatches to and the result      *)
(* accessors.  The collaborators the file calls but does not define        *)
(* (transpose_storage, renumber_ext_vertices, extract_bfs_paths,           *)
(* unrenumber_int_vertices, abstract_functor) are modelled from the        *)
(* design document.                                                        *)
(***************************************************************************)
EXTENDS Integers, Sequences, FiniteSets, TLC

\* ------------------------------------------------------------------ bounds

\* Number of vertices of the graph (internal IDs 0 .. NumVertices-1).
NumVertices == 4

\* Longest destination list a caller passes.
MaxDests == 2

\* --------------------------------------------------------------- constants

\* Pad / "no predecessor" sentinel of the vertex type.
invalid_vertex_id == -1

\* "Unreachable" sentinel of the distance array.
invalid_distance == 2147483647

CUGRAPH_SUCCESS == "CUGRAPH_SUCCESS"
CUGRAPH_UNKNOWN_ERROR == "CUGRAPH_UNKNOWN_ERROR"
CUGRAPH_INVALID_INPUT == "CUGRAPH_INVALID_INPUT"
CUGRAPH_UNSUPPORTED_TYPE_COMBINATION == "CUGRAPH_UNSUPPORTED_TYPE_COMBINATION"

\* A null cugraph_error_t* and the messages an error object can carry.
nullptr == "nullptr"
EmptyMessage == ""
UnsupportedMessage == "Type Dispatcher executing unsupported combination of types"
TransposeMessage == "transpose failed"
LookupFailure == "vertex id not found in renumber map"
InternalConsistency == "predecessor walk exceeded the vertex count"

\* A null cugraph_extract_paths_result_t*.
NullResult == [null |-> TRUE, max_path_length_ |-> 0, paths_ |-> <<>>]

Vertices == 0 .. (NumVertices - 1)

\* External IDs a caller can name: those of the graph and one that is not in it.
UnknownExt == NumVertices
ExtChoices == Vertices \cup {UnknownExt}

\* Arrays are indexed from 0 in the code and from 1 here.
At(arr, v) == arr[v + 1]

\* graph_->number_map_: internal ID v -> external ID (a rotation, so that neither
\* direction of the renumbering is the identity and the two directions differ).
number_map == [i \in 1 .. NumVertices |-> i % NumVertices]

VARIABLES
  candidate,          \* is_candidate<vertex_t, edge_t, weight_t>::value for the graph's types
  store_transposed_,  \* graph_->store_transposed_
  transpose_ok,       \* whether transposing this graph's storage succeeds
  distances_,         \* paths_result_->distances_ (indexed by internal ID)
  predecessors_,      \* paths_result_->predecessors_ (indexed by internal ID, external values)
  destinations_,      \* destinations_ (caller's external IDs)
  destinations,       \* working copy of the destinations
  predecessors,       \* working copy of the predecessors
  lens,               \* length pass: path lengths found so far
  walkCur,            \* length pass: vertex the current walk stands on
  walkSteps,          \* length pass: vertices the current walk has visited
  max_path_length,    \* extract_bfs_paths' second return value
  result,             \* extract_bfs_paths' first return value (the path buffer)
  error_code_,        \* functor.error_code_
  error_,             \* functor.error_ (message of the owned error object)
  result_,            \* functor.result_
  exception,          \* what() of the exception in flight
  out_result,         \* *result
  out_error,          \* *error
  status,             \* returned cugraph_error_code_t
  pc,                 \* position of the call
  store_transposed,   \* template parameter the dispatcher chose for this call
  again,              \* TRUE once the caller has repeated the call
  prev                \* outcome of the first call, once repeated

vars == <<candidate, store_transposed_, transpose_ok, distances_, predecessors_,
          destinations_, destinations, predecessors, lens, walkCur, walkSteps,
          max_path_length, result, error_code_, error_, result_, exception,
          out_result, out_error, status, pc, store_transposed, again, prev>>

graphVars == <<candidate, transpose_ok>>
inputVars == <<distances_, predecessors_, destinations_>>
workVars == <<destinations, predecessors>>
walkVars == <<lens, walkCur, walkSteps>>
bfsVars == <<max_path_length, result>>
functorVars == <<error_code_, error_, result_>>
outVars == <<out_result, out_error, status>>
callVars == <<store_transposed, again, prev>>

\* ------------------------------------------------------------ collaborators

\* External -> internal lookup in the renumbering map; the sentinel is kept.
ExtToInt(e) ==
  IF e = invalid_vertex_id THEN invalid_vertex_id
  ELSE (CHOOSE i \in 1 .. NumVertices : number_map[i] = e) - 1

\* Internal -> external lookup; the sentinel is kept, never looked up.
IntToExt(v) ==
  IF v = invalid_vertex_id THEN invalid_vertex_id ELSE At(number_map, v)

\* Whether every entry of arr has an entry in the renumbering map.
RenumberFound(arr) ==
  \A i \in DOMAIN arr :
    arr[i] = invalid_vertex_id \/ \E j \in 1 .. NumVertices : number_map[j] = arr[i]

renumber_ext_vertices(arr) == [i \in DOMAIN arr |-> ExtToInt(arr[i])]

unrenumber_int_vertices(arr) == [i \in DOMAIN arr |-> IntToExt(arr[i])]

\* Cap of one backward walk: the graph's vertex count.
WalkCap == NumVertices

\* LenAtTerminal counting every ended walk, whatever vertex it ended on.
LenAtTerminal_AnyRoot(v, n) == n

\* Length of a walk that stopped on vertex v (no predecessor) after n vertices:
\* the walk counts only if v is a true source (distance 0).
LenAtTerminal(v, n) == IF At(distances_, v) = 0 THEN n ELSE 0

RECURSIVE KthPred(_, _, _)
KthPred(preds, v, k) == IF k = 0 THEN v ELSE KthPred(preds, At(preds, v), k - 1)

RECURSIVE MaxOf(_)
MaxOf(s) ==
  IF s = <<>> THEN 0
  ELSE LET m == MaxOf(Tail(s)) IN IF Head(s) > m THEN Head(s) ELSE m

\* Materialization pass: row i is written from its last cell backward.
PathCell(preds, dests, ls, L, i, c) ==
  IF c <= L - ls[i] THEN invalid_vertex_id ELSE KthPred(preds, dests[i], L - c)

PathBuffer(preds, dests, ls, L) ==
  [k \in 1 .. (Len(dests) * L) |->
     PathCell(preds, dests, ls, L, ((k - 1) \div L) + 1, ((k - 1) % L) + 1)]

\* ---------------------------------------------------------------- accessors

\* The accessor returning the size of the buffer instead of the stored length.
get_max_path_length_BufferSize(r) == Len(r.paths_)

get_max_path_length(r) == r.max_path_length_

get_paths(r) == r.paths_

\* --------------------------------------------------------------------- Init

\* Traversal results: vertex v is a root (no predecessor) or hangs below
\* v-1 (mod NumVertices); its distance is marked finite or unreachable.  A
\* graph of a candidate type combination that is not stored transposed is
\* paired with every traversal result, the other graphs with the fully marked
\* ones.  The first call has just constructed its functor.
RECURSIVE Depth(_, _, _)
Depth(roots, v, fuel) ==
  IF v \in roots \/ fuel = 0 THEN 0
  ELSE 1 + Depth(roots, (v + NumVertices - 1) % NumVertices, fuel - 1)

InternalPred(roots, v) ==
  IF v \in roots THEN invalid_vertex_id ELSE (v + NumVertices - 1) % NumVertices

DestinationLists == UNION {[1 .. n -> ExtChoices] : n \in 1 .. MaxDests}

Init ==
  /\ candidate \in BOOLEAN
  /\ store_transposed_ \in BOOLEAN
  /\ transpose_ok \in BOOLEAN
  /\ store_transposed = store_transposed_
  /\ (~candidate \/ ~store_transposed_) => transpose_ok
  /\ \E roots \in SUBSET Vertices, finite \in SUBSET Vertices :
       /\ (candidate /\ ~store_transposed_) \/ finite = Vertices
       /\ predecessors_ = [i \in 1 .. NumVertices |-> IntToExt(InternalPred(roots, i - 1))]
       /\ distances_ = [i \in 1 .. NumVertices |->
                          IF (i - 1) \in finite THEN Depth(roots, i - 1, NumVertices)
                          ELSE invalid_distance]
  /\ destinations_ \in DestinationLists
  /\ destinations = <<>>
  /\ predecessors = <<>>
  /\ lens = <<>>
  /\ walkCur = invalid_vertex_id
  /\ walkSteps = 0
  /\ max_path_length = 0
  /\ result = <<>>
  /\ error_code_ = CUGRAPH_SUCCESS
  /\ error_ = EmptyMessage
  /\ result_ = NullResult
  /\ exception = nullptr
  /\ out_result = NullResult
  /\ out_error = nullptr
  /\ status = CUGRAPH_SUCCESS
  /\ pc = "functor"
  /\ again = FALSE
  /\ prev = [status |-> CUGRAPH_SUCCESS, result |-> NullResult, error |-> nullptr,
             store_transposed |-> FALSE]

\* ------------------------------------------------------------------ actions

\* cugraph_extract_paths up to the dispatch: clear the out-parameters and
\* construct the functor.  The caller repeats the call once with the same
\* arguments; the graph keeps what the first call did to it.
Call ==
  /\ pc = "returned"
  /\ ~again
  /\ again' = TRUE
  /\ prev' = [status |-> status, result |-> out_result, error |-> out_error,
              store_transposed |-> store_transposed]
  /\ store_transposed' = store_transposed_
  /\ out_result' = NullResult
  /\ out_error' = nullptr
  /\ error_code_' = CUGRAPH_SUCCESS
  /\ error_' = EmptyMessage
  /\ result_' = NullResult
  /\ exception' = nullptr
  /\ pc' = "functor"
  /\ UNCHANGED <<graphVars, store_transposed_, inputVars, workVars, walkVars, bfsVars, status>>

\* operator(): the type combination is no candidate.
Unsupported ==
  /\ pc = "functor"
  /\ ~candidate
  /\ error_code_' = CUGRAPH_UNSUPPORTED_TYPE_COMBINATION
  /\ error_' = UnsupportedMessage
  /\ pc' = "check"
  /\ UNCHANGED <<graphVars, store_transposed_, inputVars, workVars, walkVars, bfsVars,
                 result_, exception, outVars, callVars>>

\* TransposeStorage without the early return after a failed transposition.
TransposeStorage_NoReturn ==
  /\ pc = "functor"
  /\ candidate
  /\ store_transposed
  /\ IF transpose_ok
     THEN /\ store_transposed_' = FALSE
          /\ UNCHANGED <<error_code_, error_>>
     ELSE /\ error_code_' = CUGRAPH_INVALID_INPUT
          /\ error_' = TransposeMessage
          /\ UNCHANGED store_transposed_
  /\ pc' = "copy"
  /\ UNCHANGED <<graphVars, inputVars, workVars, walkVars, bfsVars, result_, exception,
                 outVars, callVars>>

\* operator(): store_transposed, so the storage is transposed first; a failure
\* returns from the functor with the collaborator's code and message.
TransposeStorage ==
  /\ pc = "functor"
  /\ candidate
  /\ store_transposed
  /\ IF transpose_ok
     THEN /\ store_transposed_' = FALSE
          /\ pc' = "copy"
          /\ UNCHANGED <<error_code_, error_>>
     ELSE /\ error_code_' = CUGRAPH_INVALID_INPUT
          /\ error_' = TransposeMessage
          /\ pc' = "check"
          /\ UNCHANGED store_transposed_
  /\ UNCHANGED <<graphVars, inputVars, workVars, walkVars, bfsVars, result_, exception,
                 outVars, callVars>>

\* CopyInputs filling the destination copy from its far end.
CopyInputs_Reversed ==
  /\ pc = "copy" \/ (pc = "functor" /\ candidate /\ ~store_transposed)
  /\ destinations' = [i \in DOMAIN destinations_ |->
                        destinations_[Len(destinations_) + 1 - i]]
  /\ predecessors' = predecessors_
  /\ pc' = "renumber_destinations"
  /\ UNCHANGED <<graphVars, store_transposed_, inputVars, walkVars, bfsVars, functorVars,
                 exception, outVars, callVars>>

\* operator(): device copies of the caller's destinations and predecessors.
CopyInputs ==
  /\ pc = "copy" \/ (pc = "functor" /\ candidate /\ ~store_transposed)
  /\ destinations' = destinations_
  /\ predecessors' = predecessors_
  /\ pc' = "renumber_destinations"
  /\ UNCHANGED <<graphVars, store_transposed_, inputVars, walkVars, bfsVars, functorVars,
                 exception, outVars, callVars>>

\* RenumberDestinations handed the caller's array instead of the copy.
RenumberDestinations_CallerArray ==
  /\ pc = "renumber_destinations"
  /\ IF RenumberFound(destinations)
     THEN /\ destinations' = renumber_ext_vertices(destinations)
          /\ destinations_' = renumber_ext_vertices(destinations_)
          /\ pc' = "renumber_predecessors"
          /\ UNCHANGED exception
     ELSE /\ exception' = LookupFailure
          /\ pc' = "catch"
          /\ UNCHANGED <<destinations, destinations_>>
  /\ UNCHANGED <<graphVars, store_transposed_, distances_, predecessors_, predecessors,
                 walkVars, bfsVars, functorVars, outVars, callVars>>

\* operator(): renumber the copy of the destinations in place; an ID the map
\* does not hold is a lookup failure, thrown to the entry point.
RenumberDestinations ==
  /\ pc = "renumber_destinations"
  /\ IF RenumberFound(destinations)
     THEN /\ destinations' = renumber_ext_vertices(destinations)
          /\ pc' = "renumber_predecessors"
          /\ UNCHANGED exception
     ELSE /\ exception' = LookupFailure
          /\ pc' = "catch"
          /\ UNCHANGED destinations
  /\ UNCHANGED <<graphVars, store_transposed_, inputVars, predecessors, walkVars, bfsVars,
                 functorVars, outVars, callVars>>

\* RenumberPredecessors renumbering the traversal result's own array as well.
RenumberPredecessors_CallerArray ==
  /\ pc = "renumber_predecessors"
  /\ IF RenumberFound(predecessors)
     THEN /\ predecessors' = renumber_ext_vertices(predecessors)
          /\ predecessors_' = renumber_ext_vertices(predecessors_)
          /\ pc' = "length"
          /\ UNCHANGED exception
     ELSE /\ exception' = LookupFailure
          /\ pc' = "catch"
          /\ UNCHANGED <<predecessors, predecessors_>>
  /\ UNCHANGED <<graphVars, store_transposed_, distances_, destinations_, destinations,
                 walkVars, bfsVars, functorVars, outVars, callVars>>

\* operator(): renumber the copy of the predecessors in place.
RenumberPredecessors ==
  /\ pc = "renumber_predecessors"
  /\ IF RenumberFound(predecessors)
     THEN /\ predecessors' = renumber_ext_vertices(predecessors)
          /\ pc' = "length"
          /\ UNCHANGED exception
     ELSE /\ exception' = LookupFailure
          /\ pc' = "catch"
          /\ UNCHANGED predecessors
  /\ UNCHANGED <<graphVars, store_transposed_, inputVars, destinations, walkVars, bfsVars,
                 functorVars, outVars, callVars>>

\* extract_bfs_paths, length pass: one step of the backward walk of the next
\* destination.  A destination with the distance sentinel is not walked; a walk
\* ends on a vertex without predecessor; a walk that has visited WalkCap
\* vertices and still has a predecessor is aborted.
LengthStep ==
  /\ pc = "length"
  /\ Len(lens) < Len(destinations)
  /\ LET d == destinations[Len(lens) + 1] IN
       IF walkSteps = 0
       THEN IF At(distances_, d) = invalid_distance
            THEN /\ lens' = Append(lens, 0)
                 /\ UNCHANGED <<walkCur, walkSteps, exception, pc>>
            ELSE /\ walkCur' = d
                 /\ walkSteps' = 1
                 /\ UNCHANGED <<lens, exception, pc>>
       ELSE IF At(predecessors, walkCur) = invalid_vertex_id
            THEN /\ lens' = Append(lens, LenAtTerminal(walkCur, walkSteps))
                 /\ walkCur' = invalid_vertex_id
                 /\ walkSteps' = 0
                 /\ UNCHANGED <<exception, pc>>
            ELSE IF walkSteps >= WalkCap
                 THEN /\ exception' = InternalConsistency
                      /\ pc' = "catch"
                      /\ UNCHANGED <<lens, walkCur, walkSteps>>
                 ELSE /\ walkCur' = At(predecessors, walkCur)
                      /\ walkSteps' = walkSteps + 1
                      /\ UNCHANGED <<lens, exception, pc>>
  /\ UNCHANGED <<graphVars, store_transposed_, inputVars, workVars, bfsVars, functorVars,
                 outVars, callVars>>

\* extract_bfs_paths, reduction and materialization pass.
Materialize ==
  /\ pc = "length"
  /\ Len(lens) = Len(destinations)
  /\ max_path_length' = MaxOf(lens)
  /\ result' = PathBuffer(predecessors, destinations, lens, MaxOf(lens))
  /\ lens' = <<>>
  /\ pc' = "unrenumber"
  /\ UNCHANGED <<graphVars, store_transposed_, inputVars, workVars, walkCur, walkSteps,
                 functorVars, exception, outVars, callVars>>

\* Unrenumber handed destinations.size() cells instead of result.size().
Unrenumber_DestinationCount ==
  /\ pc = "unrenumber"
  /\ result' = [k \in DOMAIN result |->
                  IF k <= Len(destinations) THEN IntToExt(result[k]) ELSE result[k]]
  /\ pc' = "package"
  /\ UNCHANGED <<graphVars, store_transposed_, inputVars, workVars, walkVars,
                 max_path_length, functorVars, exception, outVars, callVars>>

\* operator(): the whole buffer is handed to the bulk unrenumber operation.
Unrenumber ==
  /\ pc = "unrenumber"
  /\ result' = unrenumber_int_vertices(result)
  /\ pc' = "package"
  /\ UNCHANGED <<graphVars, store_transposed_, inputVars, workVars, walkVars,
                 max_path_length, functorVars, exception, outVars, callVars>>

\* Package storing the size of the buffer as the maximum path length.
Package_BufferSize ==
  /\ pc = "package"
  /\ result_' = [null |-> FALSE, max_path_length_ |-> Len(result), paths_ |-> result]
  /\ destinations' = <<>>
  /\ predecessors' = <<>>
  /\ result' = <<>>
  /\ max_path_length' = 0
  /\ pc' = "check"
  /\ UNCHANGED <<graphVars, store_transposed_, inputVars, walkVars, error_code_, error_,
                 exception, outVars, callVars>>

\* operator(): wrap the buffer and the maximum length; the locals go out of scope.
Package ==
  /\ pc = "package"
  /\ result_' = [null |-> FALSE, max_path_length_ |-> max_path_length, paths_ |-> result]
  /\ destinations' = <<>>
  /\ predecessors' = <<>>
  /\ result' = <<>>
  /\ max_path_length' = 0
  /\ pc' = "check"
  /\ UNCHANGED <<graphVars, store_transposed_, inputVars, walkVars, error_code_, error_,
                 exception, outVars, callVars>>

\* ReturnError returning the code without handing over the error object.
ReturnError_NoErrorObject ==
  /\ pc = "check"
  /\ error_code_ # CUGRAPH_SUCCESS
  /\ status' = error_code_
  /\ pc' = "returned"
  /\ UNCHANGED <<graphVars, store_transposed_, inputVars, workVars, walkVars, bfsVars,
                 functorVars, exception, out_result, out_error, callVars>>

\* cugraph_extract_paths: the functor reported an error.
ReturnError ==
  /\ pc = "check"
  /\ error_code_ # CUGRAPH_SUCCESS
  /\ out_error' = error_
  /\ status' = error_code_
  /\ pc' = "returned"
  /\ UNCHANGED <<graphVars, store_transposed_, inputVars, workVars, walkVars, bfsVars,
                 functorVars, exception, out_result, callVars>>

\* cugraph_extract_paths: normal completion.
ReturnSuccess ==
  /\ pc = "check"
  /\ error_code_ = CUGRAPH_SUCCESS
  /\ out_result' = result_
  /\ status' = CUGRAPH_SUCCESS
  /\ pc' = "returned"
  /\ UNCHANGED <<graphVars, store_transposed_, inputVars, workVars, walkVars, bfsVars,
                 functorVars, exception, out_error, callVars>>

\* Catch without its return statement: control falls through to the final
\* return of CUGRAPH_SUCCESS.
Catch_FallsThrough ==
  /\ pc = "catch"
  /\ out_error' = exception
  /\ status' = CUGRAPH_SUCCESS
  /\ exception' = nullptr
  /\ destinations' = <<>>
  /\ predecessors' = <<>>
  /\ lens' = <<>>
  /\ walkCur' = invalid_vertex_id
  /\ walkSteps' = 0
  /\ pc' = "returned"
  /\ UNCHANGED <<graphVars, store_transposed_, inputVars, bfsVars, functorVars, out_result,
                 callVars>>

\* cugraph_extract_paths: the catch block; unwinding has released the locals.
Catch ==
  /\ pc = "catch"
  /\ out_error' = exception
  /\ status' = CUGRAPH_UNKNOWN_ERROR
  /\ exception' = nullptr
  /\ destinations' = <<>>
  /\ predecessors' = <<>>
  /\ lens' = <<>>
  /\ walkCur' = invalid_vertex_id
  /\ walkSteps' = 0
  /\ pc' = "returned"
  /\ UNCHANGED <<graphVars, store_transposed_, inputVars, bfsVars, functorVars, out_result,
                 callVars>>

Next ==
  \/ Call
  \/ Unsupported
  \/ TransposeStorage
  \/ CopyInputs
  \/ RenumberDestinations
  \/ RenumberPredecessors
  \/ LengthStep
  \/ Materialize
  \/ Unrenumber
  \/ Package
  \/ ReturnError
  \/ ReturnSuccess
  \/ Catch

Spec == Init /\ [][Next]_vars

\* The calls on fully marked traversal results.
FairInit == Init /\ \A i \in 1 .. NumVertices : distances_[i] # invalid_distance

\* The entry point is synchronous: a call that has a next step takes it.
FairSpec == FairInit /\ [][Next]_vars /\ WF_vars(Next)

\* ------------------------------------------------- the caller's view of paths

\* The traversal result read in the caller's (external) ID space.
Known(e) == \E j \in 1 .. NumVertices : number_map[j] = e

TruePred(e) == At(predecessors_, ExtToInt(e))

TrueDist(e) == At(distances_, ExtToInt(e))

\* Whether the predecessor chain of e ends within fuel vertices.
RECURSIVE ChainEnds(_, _)
ChainEnds(e, fuel) ==
  IF fuel = 0 THEN FALSE
  ELSE IF TruePred(e) = invalid_vertex_id THEN TRUE
  ELSE ChainEnds(TruePred(e), fuel - 1)

\* The chain of e, first vertex first.
RECURSIVE ChainPath(_, _)
ChainPath(e, fuel) ==
  IF TruePred(e) = invalid_vertex_id \/ fuel <= 1 THEN <<e>>
  ELSE Append(ChainPath(TruePred(e), fuel - 1), e)

Reachable(e) ==
  /\ Known(e)
  /\ TrueDist(e) # invalid_distance
  /\ ChainEnds(e, NumVertices)
  /\ TrueDist(Head(ChainPath(e, NumVertices))) = 0

\* A destination whose walk is started and whose chain never ends.
OnCycle(e) == Known(e) /\ TrueDist(e) # invalid_distance /\ ~ChainEnds(e, NumVertices)

TruePath(e) == IF Reachable(e) THEN ChainPath(e, NumVertices) ELSE <<>>

TrueLens(dests) == [i \in DOMAIN dests |-> Len(TruePath(dests[i]))]

HopCounts(dests) ==
  [i \in DOMAIN dests |-> IF Reachable(dests[i]) THEN Len(TruePath(dests[i])) - 1 ELSE 0]

Pads(n) == [k \in 1 .. n |-> invalid_vertex_id]

NotPad(x) == x # invalid_vertex_id

RowOf(buf, L, i) == SubSeq(buf, (i - 1) * L + 1, i * L)

RemoveAt(s, i) == SubSeq(s, 1, i - 1) \o SubSeq(s, i + 1, Len(s))

RECURSIVE PaddedRows(_, _)
PaddedRows(dests, L) ==
  IF dests = <<>> THEN <<>>
  ELSE Pads(L - Len(TruePath(Head(dests)))) \o TruePath(Head(dests))
         \o PaddedRows(Tail(dests), L)

Returned == pc = "returned"

Succeeded == pc = "returned" /\ status = CUGRAPH_SUCCESS

Dests == DOMAIN destinations_

\* ------------------------------------------------------------------- claims

\* C1: at every return of cugraph_extract_paths, a SUCCESS status comes with a
\* non-null *result and a null *error, and any other status comes with a null
\* *result and a non-null *error that carries a message.
C1_ResultXorError ==
  Returned =>
    IF status = CUGRAPH_SUCCESS
    THEN ~out_result.null /\ out_error = nullptr
    ELSE out_result = NullResult /\ out_error \notin {nullptr, EmptyMessage}

\* A call that failed by an exception of a collaborator has returned.
C1_Witness ==
  Returned /\ status = CUGRAPH_UNKNOWN_ERROR /\ out_error = LookupFailure

\* C7: no step of a call, successful or failed, writes the traversal result's
\* distance and predecessor arrays or the caller's destination array.
C7_InputsNeverWritten ==
  [][/\ distances_' = distances_
     /\ predecessors_' = predecessors_
     /\ destinations_' = destinations_]_vars

\* Both working copies have been renumbered and differ from the caller's arrays.
C7_Witness ==
  /\ pc = "length"
  /\ destinations # destinations_
  /\ predecessors # predecessors_

\* C9: the repeated call returns the status of the first call and, on
\* success, the same maximum path length and the same buffer.
C9_RepeatedCallAgrees ==
  (Returned /\ again) =>
    /\ status = prev.status
    /\ status = CUGRAPH_SUCCESS =>
         /\ get_max_path_length(out_result) = get_max_path_length(prev.result)
         /\ get_paths(out_result) = get_paths(prev.result)

\* The first call transposed the storage, the second found it not transposed,
\* and both succeeded with a path of at least two vertices.
C9_Witness ==
  /\ Succeeded
  /\ again
  /\ prev.store_transposed
  /\ ~store_transposed
  /\ get_max_path_length(out_result) >= 2

\* C10: a call dispatched for transposed storage does nothing before the
\* transposition: while the storage is still transposed no working copy, length,
\* buffer or result exists; a failed transposition is returned with its code
\* and message; after a successful one the call returns what it returns for a
\* graph that was never transposed.
C10_TransposeFirst ==
  /\ (store_transposed /\ store_transposed_) =>
       /\ destinations = <<>>
       /\ predecessors = <<>>
       /\ lens = <<>>
       /\ result = <<>>
       /\ result_ = NullResult
       /\ out_result = NullResult
  /\ (Returned /\ store_transposed /\ candidate /\ ~transpose_ok) =>
       /\ status = CUGRAPH_INVALID_INPUT
       /\ out_error = TransposeMessage
  /\ (Succeeded /\ store_transposed) =>
       /\ ~store_transposed_
       /\ out_result =
            [null |-> FALSE,
             max_path_length_ |-> MaxOf(TrueLens(destinations_)),
             paths_ |-> PaddedRows(destinations_, MaxOf(TrueLens(destinations_)))]

\* A call on a transposed graph has returned the transposition's failure.
C10_Witness ==
  /\ Returned
  /\ store_transposed
  /\ store_transposed_
  /\ status = CUGRAPH_INVALID_INPUT

\* C2: row i of the returned buffer is the path of destination i of the
\* caller's list: without its pads it is the path from a source to that
\* destination (empty if there is none), so equal destinations get equal rows
\* and a reordered list gets its rows reordered alike.
C2_RowsFollowDestinations ==
  Succeeded =>
    \A i \in Dests :
      SelectSeq(RowOf(get_paths(out_result), get_max_path_length(out_result), i), NotPad)
        = TruePath(destinations_[i])

\* Two different destinations with different non-empty paths were returned.
C2_Witness ==
  /\ Succeeded
  /\ Len(destinations_) = 2
  /\ destinations_[1] # destinations_[2]
  /\ Len(TruePath(destinations_[1])) > Len(TruePath(destinations_[2]))
  /\ TruePath(destinations_[2]) # <<>>

\* C3: the unrenumbering step replaces every cell holding an internal ID by
\* the external ID the renumbering map gives it and leaves every pad cell the
\* pad sentinel, and the buffer it leaves is the one the result exposes.
C3_UnrenumberKeepsPads ==
  [][/\ pc = "unrenumber" =>
          /\ DOMAIN result' = DOMAIN result
          /\ \A k \in DOMAIN result :
               result'[k] = IF result[k] = invalid_vertex_id
                            THEN invalid_vertex_id
                            ELSE At(number_map, result[k])
     /\ pc = "package" => get_paths(result_') = result]_vars

\* A buffer holding pads and vertex IDs has been unrenumbered.
C3_Witness ==
  /\ pc = "package"
  /\ \E k \in DOMAIN result : result[k] = invalid_vertex_id
  /\ \E k \in DOMAIN result : result[k] # invalid_vertex_id

\* C4: the returned buffer has D x L_max cells, and in row d the last len[d]
\* cells are the path to destination d, source first, and the cells before them
\* are pads.
C4_PaddedLayout ==
  Succeeded =>
    LET L == get_max_path_length(out_result)
        buf == get_paths(out_result)
    IN /\ Len(buf) = Len(destinations_) * L
       /\ \A i \in Dests :
            LET path == TruePath(destinations_[i]) IN
              /\ Len(path) <= L
              /\ SubSeq(RowOf(buf, L, i), 1, L - Len(path)) = Pads(L - Len(path))
              /\ SubSeq(RowOf(buf, L, i), L - Len(path) + 1, L) = path

\* The chain 0 -> 1 -> 2 -> 3 with destinations [3, 1].
C4_Witness ==
  /\ Succeeded
  /\ predecessors_ = <<0, 1, 2, invalid_vertex_id>>
  /\ destinations_ = <<3, 1>>
  /\ get_max_path_length(out_result) = 4
  /\ get_paths(out_result) = <<0, 1, 2, 3, invalid_vertex_id, invalid_vertex_id, 0, 1>>

\* C5 as stated: max_path_length() is the largest hop count (number of edges)
\* from a source to a destination of the list.
C5_MaxIsHopCount ==
  Succeeded => get_max_path_length(out_result) = MaxOf(HopCounts(destinations_))

\* C5 as amended: max_path_length() is the largest number of vertices on the
\* path from a source to a destination of the list (hop count plus one for a
\* reachable destination, 0 for an unreachable one).
C5_MaxIsVertexCount ==
  Succeeded => get_max_path_length(out_result) = MaxOf(TrueLens(destinations_))

\* Two destinations at different depths were returned.
C5_Witness ==
  /\ Succeeded
  /\ Len(destinations_) = 2
  /\ Len(TruePath(destinations_[1])) = 1
  /\ Len(TruePath(destinations_[2])) = 3

\* C6: an unreachable destination gets length 0 in the length pass and an
\* all-pad row, and max_path_length is what it is for the list without it.
C6_UnreachableRowsArePads ==
  /\ (pc = "length" /\ Len(lens) = Len(destinations)) =>
       \A i \in Dests : ~Reachable(destinations_[i]) => lens[i] = 0
  /\ Succeeded =>
       \A i \in Dests :
         ~Reachable(destinations_[i]) =>
           /\ RowOf(get_paths(out_result), get_max_path_length(out_result), i)
                = Pads(get_max_path_length(out_result))
           /\ get_max_path_length(out_result)
                = MaxOf(TrueLens(RemoveAt(destinations_, i)))

\* A destination with a finite distance whose chain ends on a vertex that is
\* no source was returned beside a reachable destination.
C6_Witness ==
  /\ Succeeded
  /\ get_max_path_length(out_result) >= 2
  /\ \E i \in Dests :
       /\ ~Reachable(destinations_[i])
       /\ TrueDist(destinations_[i]) # invalid_distance
       /\ TruePred(destinations_[i]) # invalid_vertex_id

\* C8: no backward walk visits more vertices than the graph has; a call with a
\* destination whose walk would never end returns a failure and no result;
\* and every call returns.
C8_EveryCallReturns ==
  /\ [](walkSteps <= NumVertices)
  /\ []((Returned /\ \E i \in Dests : OnCycle(destinations_[i])) =>
          (status # CUGRAPH_SUCCESS /\ out_result = NullResult))
  /\ (pc # "returned") ~> (pc = "returned")

\* A call whose walk was aborted at the cap has returned.
C8_Witness ==
  /\ Returned
  /\ out_error = InternalConsistency
  /\ \E i \in Dests : OnCycle(destinations_[i])

====
